---- MODULE Spec2Model ----
(***************************************************************************)
(* GeoRunner quadtree (package quadtree): a point-region quadtree whose    *)
(* nodes each carry a sync.RWMutex.  Insert, Remove and queryRecursive are  *)
(* recursive methods; every activation locks its node on entry and unlocks  *)
(* it (defer) when it returns.                                              *)
(*                                                                         *)
(* A node is named by its path from the root (<<>> is the root, 1..4 are   *)
(* northWest, northEast, southWest, southEast); the path stands for the    *)
(* *QuadTree pointer.                                                       *)
(*                                                                         *)
(* Coordinates are float64 in the source.  The model keeps the two limits  *)
(* of a binary floating-point format, scaled down: a number is an integer  *)
(* count of the smallest positive value of the format, and the result of   *)
(* every addition, subtraction and halving is rounded to MantBits          *)
(* significant bits, ties to even (float64: 53 bits, smallest value        *)
(* 2^-1074).                                                               *)
(***************************************************************************)
EXTENDS Integers, Sequences, FiniteSets, Bags, TLC

\* ------------------------------------------------------------------ bounds
MantBits == 4      \* significant bits of a number
UnitBits == 3      \* the world is 12 * 2^UnitBits smallest values wide
MaxPoints == 3     \* most points stored in the tree at once
MaxCalls == 4      \* calls a lone caller makes
MaxOps == 2        \* calls the threads start
MaxSimOps == 5     \* calls the drivers and the handlers start

RECURSIVE Pow2(_)
Pow2(n) == IF n = 0 THEN 1 ELSE 2 * Pow2(n - 1)

Unit == Pow2(UnitBits)

\* ------------------------------------------------------------- arithmetic
Abs(v) == IF v < 0 THEN -v ELSE v

RECURSIVE BitLen(_)
BitLen(a) == IF a = 0 THEN 0 ELSE 1 + BitLen(a \div 2)

\* a >= 0 rounded to a multiple of q, ties to the even multiple.
RoundEven(a, q) ==
    LET lo == (a \div q) * q
        rem == a - lo
        up == 2 * rem > q \/ (2 * rem = q /\ (a \div q) % 2 = 1)
    IN  IF up THEN lo + q ELSE lo

\* The exact value v as the format holds it.
Fl(v) ==
    LET a == Abs(v)
        n == BitLen(a)
        m == IF n <= MantBits THEN a ELSE RoundEven(a, Pow2(n - MantBits))
    IN  IF v < 0 THEN -m ELSE m

\* Fl, worked out once for every sum and difference the calls below make.
Rounded == [v \in -(16 * Unit)..(16 * Unit) |-> Fl(v)]

FlAdd(a, b) == Rounded[a + b]

FlSub(a, b) == Rounded[a - b]

\* a / 2 in a format with no smallest value: half of the smallest value is
\* not zero.
FlHalf_NoUnderflow(a) ==
    LET m == IF Abs(a) = 1 THEN 1 ELSE RoundEven(Abs(a), 2) \div 2
    IN  IF a < 0 THEN -m ELSE m

\* a / 2: exact, but for an odd count of smallest values, which rounds.
FlHalf(a) ==
    LET m == RoundEven(Abs(a), 2) \div 2
    IN  IF a < 0 THEN -m ELSE m

\* ------------------------------------------------------------ value types
Nil == <<0>>       \* the nil *QuadTree
root == <<>>

NoPoint == [X |-> 0, Y |-> 0, Data |-> "none"]
NoRect == [X |-> 0, Y |-> 0, Width |-> 0, Height |-> 0]

\* The world: main.go's worldBoundary (180 x 90 = 45 * 4 x 45 * 2) scaled
\* to 3 * 2 x 3 * 1 units.
worldBoundary == [X |-> 0, Y |-> 0, Width |-> 6 * Unit, Height |-> 3 * Unit]

Pt(x, y, d) == [X |-> x, Y |-> y, Data |-> d]

\* The distance between neighbouring numbers of magnitude 2 * Unit .. 4 * Unit.
Ulp == Pow2(UnitBits + 2 - MantBits)

\* Points handed to Insert and Remove.
InsidePoints ==
    { Pt(2 * Unit, Unit, "d1"),                \* north-east quadrant
      Pt(0, 0, "d1"),                          \* the centre: north-east quadrant
      Pt(0, 0, "d2"),                          \* same place, another payload
      Pt(-4 * Unit, -2 * Unit, "d1"),          \* south-west quadrant
      Pt(-4 * Unit, -2 * Unit - Ulp, "d2") }   \* the nearest number to the south
OutsidePoints ==
    { Pt(6 * Unit, 0, "d1"),                   \* on the east edge
      Pt(0, 3 * Unit, "d2") }                  \* on the north edge
Points == InsidePoints \cup OutsidePoints

\* Rectangles handed to Query.
Rects ==
    { worldBoundary,
      [X |-> 3 * Unit, Y |-> Unit, Width |-> 3 * Unit, Height |-> Unit],
      [X |-> 0, Y |-> 0, Width |-> 2, Height |-> 1],
      [X |-> 0, Y |-> -2 * Unit, Width |-> 6 * Unit, Height |-> Unit] }

\* Capacities handed to NewQuadTree.
Capacities == {0, 1, 2}

\* --------------------------------------------------------------- geometry
\* Contains with "<=" for the "<" of lines 64 and 66: the east and north
\* edges belong to the box.
Contains_Closed(b, p) ==
    /\ p.X >= FlSub(b.X, b.Width)
    /\ p.X <= FlAdd(b.X, b.Width)
    /\ p.Y >= FlSub(b.Y, b.Height)
    /\ p.Y <= FlAdd(b.Y, b.Height)

Contains(b, p) ==
    /\ p.X >= FlSub(b.X, b.Width)
    /\ p.X < FlAdd(b.X, b.Width)
    /\ p.Y >= FlSub(b.Y, b.Height)
    /\ p.Y < FlAdd(b.Y, b.Height)

\* Intersects with ">" and "<" for the ">=" and "<=" of lines 182-195: boxes
\* that only touch are taken to overlap.
Intersects_Touching(b, other) ==
    LET bMinX == FlSub(b.X, b.Width)
        bMaxX == FlAdd(b.X, b.Width)
        bMinY == FlSub(b.Y, b.Height)
        bMaxY == FlAdd(b.Y, b.Height)
        otherMinX == FlSub(other.X, other.Width)
        otherMaxX == FlAdd(other.X, other.Width)
        otherMinY == FlSub(other.Y, other.Height)
        otherMaxY == FlAdd(other.Y, other.Height)
    IN  IF bMinX > otherMaxX THEN FALSE
        ELSE IF bMaxX < otherMinX THEN FALSE
        ELSE IF bMinY > otherMaxY THEN FALSE
        ELSE IF bMaxY < otherMinY THEN FALSE
        ELSE TRUE

Intersects(b, other) ==
    LET bMinX == FlSub(b.X, b.Width)
        bMaxX == FlAdd(b.X, b.Width)
        bMinY == FlSub(b.Y, b.Height)
        bMaxY == FlAdd(b.Y, b.Height)
        otherMinX == FlSub(other.X, other.Width)
        otherMaxX == FlAdd(other.X, other.Width)
        otherMinY == FlSub(other.Y, other.Height)
        otherMaxY == FlAdd(other.Y, other.Height)
    IN  IF bMinX >= otherMaxX THEN FALSE
        ELSE IF bMaxX <= otherMinX THEN FALSE
        ELSE IF bMinY >= otherMaxY THEN FALSE
        ELSE IF bMaxY <= otherMinY THEN FALSE
        ELSE TRUE

\* NewQuadTree without the clamp of lines 42-44.
NewQuadTree_NoClamp(boundary, capacity) ==
    [ boundary |-> boundary,
      capacity |-> capacity,
      points |-> <<>>,
      northWest |-> Nil, northEast |-> Nil,
      southWest |-> Nil, southEast |-> Nil ]

\* ------------------------------------------------------------------ nodes
NewQuadTree(boundary, capacity) ==
    [ boundary |-> boundary,
      capacity |-> IF capacity < 1 THEN 1 ELSE capacity,
      points |-> <<>>,
      northWest |-> Nil, northEast |-> Nil,
      southWest |-> Nil, southEast |-> Nil ]

\* qt.subdivide() on the tree tr: four fresh nodes, qt's four pointers set.
subdivide(tr, qt) ==
    LET n == tr[qt]
        childWidth == FlHalf(n.boundary.Width)
        childHeight == FlHalf(n.boundary.Height)
        centerX == n.boundary.X
        centerY == n.boundary.Y
        nwBoundary == [X |-> FlSub(centerX, childWidth), Y |-> FlAdd(centerY, childHeight),
                       Width |-> childWidth, Height |-> childHeight]
        neBoundary == [X |-> FlAdd(centerX, childWidth), Y |-> FlAdd(centerY, childHeight),
                       Width |-> childWidth, Height |-> childHeight]
        swBoundary == [X |-> FlSub(centerX, childWidth), Y |-> FlSub(centerY, childHeight),
                       Width |-> childWidth, Height |-> childHeight]
        seBoundary == [X |-> FlAdd(centerX, childWidth), Y |-> FlSub(centerY, childHeight),
                       Width |-> childWidth, Height |-> childHeight]
    IN  (Append(qt, 1) :> NewQuadTree(nwBoundary, n.capacity))
        @@ (Append(qt, 2) :> NewQuadTree(neBoundary, n.capacity))
        @@ (Append(qt, 3) :> NewQuadTree(swBoundary, n.capacity))
        @@ (Append(qt, 4) :> NewQuadTree(seBoundary, n.capacity))
        @@ [tr EXCEPT ![qt].northWest = Append(qt, 1),
                      ![qt].northEast = Append(qt, 2),
                      ![qt].southWest = Append(qt, 3),
                      ![qt].southEast = Append(qt, 4)]

\* The i-th child pointer of node n, in the order the code tries them.
Child(n, i) ==
    CASE i = 1 -> n.northWest
      [] i = 2 -> n.northEast
      [] i = 3 -> n.southWest
      [] i = 4 -> n.southEast

\* ------------------------------------------------------------ activations
(***************************************************************************)
(* One activation of Insert, Remove or queryRecursive on node qt.  pc is    *)
(*   "Lock"  at qt.mu.Lock() / qt.mu.RLock(), the lock not yet asked for,   *)
(*   "Wait"  a writer that holds the mutex's writer slot and waits for the  *)
(*           readers to leave,                                              *)
(*   "Call"  inside a call on the i-th child,                               *)
(*   "Ret"   at its return, the deferred unlock still to run (ret is the    *)
(*           value returned).                                               *)
(* redis is TRUE in the redistribution loop of Insert, oldPoints the part   *)
(* of the drained bucket still to place (its head is the point in hand).    *)
(***************************************************************************)
Frame(fn, qt, p, rangeRect) ==
    [ fn |-> fn, qt |-> qt, p |-> p, rangeRect |-> rangeRect, pc |-> "Lock",
      i |-> 0, redis |-> FALSE, oldPoints |-> <<>>, ret |-> FALSE ]

\* An activation's next moves: the tree after them, the frames that replace
\* the activation (itself, then the callee if it calls), the points it
\* appends to *found.
Moves(tr, frames, add) == [tree |-> tr, frames |-> frames, found |-> add]

Return(f, v) == [f EXCEPT !.pc = "Ret", !.ret = v]

\* f calls fn on its node's i-th child with point p.
CallChild(tr, f, i, p) ==
    << [f EXCEPT !.pc = "Call", !.i = i],
       Frame(f.fn, Child(tr[f.qt], i), p, f.rangeRect) >>

\* InsertEnter without the test of lines 104-106: no point is turned away.
InsertEnter_AcceptsAll(tr, f) ==
    LET n == tr[f.qt]
        appended == [tr EXCEPT ![f.qt].points = Append(@, f.p)]
        oldPoints == appended[f.qt].points
        split == [subdivide(appended, f.qt) EXCEPT ![f.qt].points = <<>>]
    IN  IF n.northWest # Nil THEN Moves(tr, CallChild(tr, f, 1, f.p), <<>>)
        ELSE IF Len(oldPoints) > n.capacity
             THEN Moves(split,
                        CallChild(split,
                                  [f EXCEPT !.redis = TRUE, !.oldPoints = oldPoints],
                                  1, Head(oldPoints)),
                        <<>>)
        ELSE Moves(appended, <<Return(f, TRUE)>>, <<>>)

\* InsertEnter with ">=" for the ">" of line 131: a bucket that is just full
\* is split.
InsertEnter_SplitsFull(tr, f) ==
    LET n == tr[f.qt]
        appended == [tr EXCEPT ![f.qt].points = Append(@, f.p)]
        oldPoints == appended[f.qt].points
        split == [subdivide(appended, f.qt) EXCEPT ![f.qt].points = <<>>]
    IN  IF ~Contains(n.boundary, f.p) THEN Moves(tr, <<Return(f, FALSE)>>, <<>>)
        ELSE IF n.northWest # Nil THEN Moves(tr, CallChild(tr, f, 1, f.p), <<>>)
        ELSE IF Len(oldPoints) >= n.capacity
             THEN Moves(split,
                        CallChild(split,
                                  [f EXCEPT !.redis = TRUE, !.oldPoints = oldPoints],
                                  1, Head(oldPoints)),
                        <<>>)
        ELSE Moves(appended, <<Return(f, TRUE)>>, <<>>)

\* InsertEnter without line 141: the split node keeps its bucket.
InsertEnter_KeepsBucket(tr, f) ==
    LET n == tr[f.qt]
        appended == [tr EXCEPT ![f.qt].points = Append(@, f.p)]
        oldPoints == appended[f.qt].points
        split == subdivide(appended, f.qt)
    IN  IF ~Contains(n.boundary, f.p) THEN Moves(tr, <<Return(f, FALSE)>>, <<>>)
        ELSE IF n.northWest # Nil THEN Moves(tr, CallChild(tr, f, 1, f.p), <<>>)
        ELSE IF Len(oldPoints) > n.capacity
             THEN Moves(split,
                        CallChild(split,
                                  [f EXCEPT !.redis = TRUE, !.oldPoints = oldPoints],
                                  1, Head(oldPoints)),
                        <<>>)
        ELSE Moves(appended, <<Return(f, TRUE)>>, <<>>)

\* InsertEnter with the append of line 128 ahead of the test of lines
\* 104-106: a point that is turned away is left in the bucket.
InsertEnter_AppendsFirst(tr, f) ==
    LET n == tr[f.qt]
        appended == [tr EXCEPT ![f.qt].points = Append(@, f.p)]
        oldPoints == appended[f.qt].points
        split == [subdivide(appended, f.qt) EXCEPT ![f.qt].points = <<>>]
    IN  IF ~Contains(n.boundary, f.p) THEN Moves(appended, <<Return(f, FALSE)>>, <<>>)
        ELSE IF n.northWest # Nil THEN Moves(tr, CallChild(tr, f, 1, f.p), <<>>)
        ELSE IF Len(oldPoints) > n.capacity
             THEN Moves(split,
                        CallChild(split,
                                  [f EXCEPT !.redis = TRUE, !.oldPoints = oldPoints],
                                  1, Head(oldPoints)),
                        <<>>)
        ELSE Moves(appended, <<Return(f, TRUE)>>, <<>>)

\* Insert from the lock to the first call or the return (lines 104-145).
InsertEnter(tr, f) ==
    LET n == tr[f.qt]
        appended == [tr EXCEPT ![f.qt].points = Append(@, f.p)]
        oldPoints == appended[f.qt].points
        split == [subdivide(appended, f.qt) EXCEPT ![f.qt].points = <<>>]
    IN  IF ~Contains(n.boundary, f.p) THEN Moves(tr, <<Return(f, FALSE)>>, <<>>)
        ELSE IF n.northWest # Nil THEN Moves(tr, CallChild(tr, f, 1, f.p), <<>>)
        ELSE IF Len(oldPoints) > n.capacity
             THEN Moves(split,
                        CallChild(split,
                                  [f EXCEPT !.redis = TRUE, !.oldPoints = oldPoints],
                                  1, Head(oldPoints)),
                        <<>>)
        ELSE Moves(appended, <<Return(f, TRUE)>>, <<>>)

\* Insert after its call on child f.i returned r (lines 111-124, 145-160).
InsertResume(tr, f, r) ==
    IF ~f.redis
    THEN IF r THEN Moves(tr, <<Return(f, TRUE)>>, <<>>)
         ELSE IF f.i < 4 THEN Moves(tr, CallChild(tr, f, f.i + 1, f.p), <<>>)
         ELSE Moves(tr, <<Return(f, FALSE)>>, <<>>)
    ELSE IF r \/ f.i = 4
         THEN IF Len(f.oldPoints) > 1
              THEN Moves(tr,
                         CallChild(tr, [f EXCEPT !.oldPoints = Tail(@)], 1,
                                   Head(Tail(f.oldPoints))),
                         <<>>)
              ELSE Moves(tr, <<Return([f EXCEPT !.oldPoints = <<>>], TRUE)>>, <<>>)
         ELSE Moves(tr, CallChild(tr, f, f.i + 1, Head(f.oldPoints)), <<>>)

\* FoundIndex with the payload left out of the comparison of line 293.
FoundIndex_NoData(points, p) ==
    LET hits == { k \in 1..Len(points) :
                    /\ points[k].X = p.X
                    /\ points[k].Y = p.Y }
    IN  IF hits = {} THEN 0 ELSE CHOOSE k \in hits : \A j \in hits : k <= j

\* The index Remove's scan stops at: the first bucket entry equal to p on
\* Data, X and Y, or 0 (the code's -1) when there is none.
FoundIndex(points, p) ==
    LET hits == { k \in 1..Len(points) :
                    /\ points[k].Data = p.Data
                    /\ points[k].X = p.X
                    /\ points[k].Y = p.Y }
    IN  IF hits = {} THEN 0 ELSE CHOOSE k \in hits : \A j \in hits : k <= j

\* Lines 307-309 without the truncation of line 309: the entry is overwritten
\* by the last one, which stays.
SwapPop_NoPop(points, foundIndex) ==
    [points EXCEPT ![foundIndex] = points[Len(points)]]

\* "Swap and pop": overwrite the entry with the last one, drop the last.
SwapPop(points, foundIndex) ==
    SubSeq([points EXCEPT ![foundIndex] = points[Len(points)]], 1, Len(points) - 1)

\* Remove from the lock to the first call or the return (lines 265-311).
RemoveEnter(tr, f) ==
    LET n == tr[f.qt]
        foundIndex == FoundIndex(n.points, f.p)
    IN  IF ~Contains(n.boundary, f.p) THEN Moves(tr, <<Return(f, FALSE)>>, <<>>)
        ELSE IF n.northWest # Nil THEN Moves(tr, CallChild(tr, f, 1, f.p), <<>>)
        ELSE IF foundIndex = 0 THEN Moves(tr, <<Return(f, FALSE)>>, <<>>)
        ELSE Moves([tr EXCEPT ![f.qt].points = SwapPop(@, foundIndex)],
                   <<Return(f, TRUE)>>, <<>>)

\* RemoveResume that merges: a node whose four children are leaves with empty
\* buckets after the removal becomes a leaf again.
RemoveResume_Merges(tr, f, r) ==
    LET n == tr[f.qt]
        empty == \A c \in {n.northWest, n.northEast, n.southWest, n.southEast} :
                    tr[c].northWest = Nil /\ tr[c].points = <<>>
        merged == [tr EXCEPT ![f.qt].northWest = Nil, ![f.qt].northEast = Nil,
                             ![f.qt].southWest = Nil, ![f.qt].southEast = Nil]
    IN  IF r THEN Moves(IF empty THEN merged ELSE tr, <<Return(f, TRUE)>>, <<>>)
        ELSE IF f.i < 4 THEN Moves(tr, CallChild(tr, f, f.i + 1, f.p), <<>>)
        ELSE Moves(tr, <<Return(f, FALSE)>>, <<>>)

\* Remove after its call on child f.i returned r (lines 272-285).
RemoveResume(tr, f, r) ==
    IF r THEN Moves(tr, <<Return(f, TRUE)>>, <<>>)
    ELSE IF f.i < 4 THEN Moves(tr, CallChild(tr, f, f.i + 1, f.p), <<>>)
    ELSE Moves(tr, <<Return(f, FALSE)>>, <<>>)

\* queryEnter without the test of line 239: a leaf's whole bucket is found.
queryEnter_NoFilter(tr, f) ==
    LET n == tr[f.qt]
    IN  IF ~Intersects(n.boundary, f.rangeRect) THEN Moves(tr, <<Return(f, FALSE)>>, <<>>)
        ELSE IF n.northWest = Nil THEN Moves(tr, <<Return(f, FALSE)>>, n.points)
        ELSE Moves(tr, CallChild(tr, f, 1, f.p), <<>>)

\* queryRecursive from the lock to the first call or the return (230-251).
queryEnter(tr, f) ==
    LET n == tr[f.qt]
        inside(p) == Contains(f.rangeRect, p)
    IN  IF ~Intersects(n.boundary, f.rangeRect) THEN Moves(tr, <<Return(f, FALSE)>>, <<>>)
        ELSE IF n.northWest = Nil
             THEN Moves(tr, <<Return(f, FALSE)>>, SelectSeq(n.points, inside))
        ELSE Moves(tr, CallChild(tr, f, 1, f.p), <<>>)

\* queryRecursive after its call on child f.i returned (lines 251-255).
queryResume(tr, f) ==
    IF f.i < 4 THEN Moves(tr, CallChild(tr, f, f.i + 1, f.p), <<>>)
    ELSE Moves(tr, <<Return(f, FALSE)>>, <<>>)

\* What activation f does once it has its lock.
Enter(tr, f) ==
    CASE f.fn = "Insert" -> InsertEnter(tr, f)
      [] f.fn = "Remove" -> RemoveEnter(tr, f)
      [] f.fn = "queryRecursive" -> queryEnter(tr, f)

\* What activation f does when its callee returned r.
Resume(tr, f, r) ==
    CASE f.fn = "Insert" -> InsertResume(tr, f, r)
      [] f.fn = "Remove" -> RemoveResume(tr, f, r)
      [] f.fn = "queryRecursive" -> queryResume(tr, f)

\* ------------------------------------------------- one caller, no others
(***************************************************************************)
(* A call run to its end by a caller that never waits for a lock: the      *)
(* state of the call is the tree, the stack of activations and *found.     *)
(***************************************************************************)
Top(stack) == stack[Len(stack)]

Ended(m) == Len(m.stack) = 1 /\ Top(m.stack).pc = "Ret"

Step(m) ==
    LET k == Len(m.stack)
        top == m.stack[k]
        e == IF top.pc = "Ret" THEN Resume(m.tree, m.stack[k - 1], top.ret)
             ELSE Enter(m.tree, top)
        kept == IF top.pc = "Ret" THEN SubSeq(m.stack, 1, k - 2)
                ELSE SubSeq(m.stack, 1, k - 1)
    IN  [tree |-> e.tree, stack |-> kept \o e.frames, found |-> m.found \o e.found]

RECURSIVE Run(_)
Run(m) == IF Ended(m) THEN m ELSE Run(Step(m))

Begin(tr, fn, p, rangeRect) ==
    [tree |-> tr, stack |-> <<Frame(fn, root, p, rangeRect)>>, found |-> <<>>]

\* The public methods, called on the root: the tree afterwards (tree) and
\* the value returned (ret, found).
Outcome(m) == [tree |-> m.tree, ret |-> m.stack[1].ret, found |-> m.found]

Insert(tr, p) == Outcome(Run(Begin(tr, "Insert", p, NoRect)))

Remove(tr, p) == Outcome(Run(Begin(tr, "Remove", p, NoRect)))

Query(tr, rangeRect) == Outcome(Run(Begin(tr, "queryRecursive", NoPoint, rangeRect)))

\* ------------------------------------------------------------------ state
VARIABLES
    tree,      \* the nodes: path -> node (the heap of *QuadTree values)
    ncalls,    \* the number of calls made so far
    called,    \* the last call a lone caller made and what it returned
    shadow,    \* the tree the same calls build without the tracked point
    track,     \* the tracked point, where it is ("none", "in", "out") and
               \* what its Remove returned
    mu,        \* each node's sync.RWMutex
    stack,     \* each thread's activations, the innermost last
    found,     \* each thread's result slice (Query's found)
    nops,      \* the number of calls the threads have started
    mine,      \* each thread's last stored point nobody has removed since
    sim,       \* each simulated driver's place in simulateDriver
    entry,     \* the tree each thread's call found when it locked the root
    geom       \* the last b.Intersects(other) worked out on its own

vars ==
    <<tree, ncalls, called, shadow, track, mu, stack, found, nops, mine, sim,
      entry, geom>>

loneVars == <<ncalls, called, shadow, track, geom>>

threadVars == <<mu, stack, found, nops, mine, sim, entry>>

Threads == {1, 2, 3}

NoThread == 0

\* A sync.RWMutex nobody holds.  w is the writer that has passed rw.w.Lock()
\* and turned new readers away, locked says that it is past Lock(), readers
\* are the threads past RLock().
Unlocked == [w |-> NoThread, locked |-> FALSE, readers |-> {}]

\* Where a driver is in simulateDriver, and its currentPoint.
NoSim == [at |-> "none", currentPoint |-> NoPoint]

NoGeom == [b |-> NoRect, other |-> NoRect, ret |-> FALSE]

IdleThreads ==
    /\ stack = [t \in Threads |-> <<>>]
    /\ found = [t \in Threads |-> <<>>]
    /\ nops = 0
    /\ mine = [t \in Threads |-> NoPoint]
    /\ sim = [t \in Threads |-> NoSim]
    /\ entry = [t \in Threads |-> <<>>]

\* The bucket contents of the subtree at qt, read through the child pointers.
RECURSIVE Stored(_, _)
Stored(tr, qt) ==
    LET n == tr[qt]
        sub(c) == IF c = Nil THEN <<>> ELSE Stored(tr, c)
    IN  n.points \o sub(n.northWest) \o sub(n.northEast)
                 \o sub(n.southWest) \o sub(n.southEast)

Range(s) == { s[k] : k \in 1..Len(s) }

\* A sequence of points as a multiset.
BagOf(s) == [ x \in Range(s) |-> Cardinality({ k \in 1..Len(s) : s[k] = x }) ]

Call(op, p, rangeRect, capacity, o, before) ==
    [ op |-> op, p |-> p, rangeRect |-> rangeRect, capacity |-> capacity,
      ret |-> o.ret, found |-> o.found, before |-> before ]

NoOutcome == [ret |-> FALSE, found |-> <<>>]

\* tree := NewQuadTree(worldBoundary, capacity), as main does at start-up.
Init ==
    \E capacity \in Capacities :
        /\ tree = (root :> NewQuadTree(worldBoundary, capacity))
        /\ ncalls = 0
        /\ called = Call("NewQuadTree", NoPoint, worldBoundary, capacity, NoOutcome, <<>>)
        /\ shadow = tree
        /\ track = [p |-> NoPoint, at |-> "none", removed |-> FALSE]
        /\ mu = (root :> Unlocked)
        /\ IdleThreads
        /\ geom = NoGeom

\* tree.Insert(p) by a lone caller.
InsertCall(p) ==
    LET o == Insert(tree, p) IN
    /\ Len(Stored(tree, root)) < MaxPoints
    /\ ncalls < MaxCalls
    /\ ncalls' = ncalls + 1
    /\ tree' = o.tree
    /\ called' = Call("Insert", p, NoRect, 0, o, tree)
    /\ UNCHANGED <<shadow, track, threadVars, geom>>

\* tree.Remove(p) by a lone caller.
RemoveCall(p) ==
    LET o == Remove(tree, p) IN
    /\ ncalls < MaxCalls
    /\ ncalls' = ncalls + 1
    /\ tree' = o.tree
    /\ called' = Call("Remove", p, NoRect, 0, o, tree)
    /\ UNCHANGED <<shadow, track, threadVars, geom>>

\* tree.Query(rangeRect) by a lone caller.
QueryCall(rangeRect) ==
    LET o == Query(tree, rangeRect) IN
    /\ ncalls < MaxCalls
    /\ ncalls' = ncalls + 1
    /\ tree' = o.tree
    /\ called' = Call("Query", NoPoint, rangeRect, 0, o, tree)
    /\ UNCHANGED <<shadow, track, threadVars, geom>>

Next ==
    \/ \E p \in Points : InsertCall(p)
    \/ \E p \in Points : RemoveCall(p)
    \/ \E rangeRect \in Rects : QueryCall(rangeRect)

Spec == Init /\ [][Next]_vars

\* ------------------------------------------- two trees, one tracked point
(***************************************************************************)
(* The same calls made on two trees, except for one Insert(p) and the      *)
(* Remove(p) that follows it, which only `tree' gets: `shadow' is the tree  *)
(* in which p was never inserted.  From p's Insert on, no other call is    *)
(* about a point equal to p.                                                *)
(***************************************************************************)
TrackedInsert(p) ==
    LET o == Insert(tree, p) IN
    /\ track.at = "none"
    /\ Len(Stored(tree, root)) < MaxPoints
    /\ o.ret
    /\ p \notin Range(Stored(tree, root))
    /\ ncalls < MaxCalls
    /\ ncalls' = ncalls + 1
    /\ tree' = o.tree
    /\ track' = [p |-> p, at |-> "in", removed |-> FALSE]
    /\ UNCHANGED <<shadow, called, threadVars, geom>>

TrackedRemove ==
    LET o == Remove(tree, track.p) IN
    /\ track.at = "in"
    /\ ncalls < MaxCalls
    /\ ncalls' = ncalls + 1
    /\ tree' = o.tree
    /\ track' = [track EXCEPT !.at = "out", !.removed = o.ret]
    /\ UNCHANGED <<shadow, called, threadVars, geom>>

InsertBoth(p) ==
    LET o == Insert(tree, p) IN
    /\ track.at # "none" => p # track.p
    /\ Len(Stored(tree, root)) < MaxPoints
    /\ ncalls < MaxCalls
    /\ ncalls' = ncalls + 1
    /\ tree' = o.tree
    /\ shadow' = Insert(shadow, p).tree
    /\ UNCHANGED <<track, called, threadVars, geom>>

RemoveBoth(p) ==
    /\ track.at # "none" => p # track.p
    /\ ncalls < MaxCalls
    /\ ncalls' = ncalls + 1
    /\ tree' = Remove(tree, p).tree
    /\ shadow' = Remove(shadow, p).tree
    /\ UNCHANGED <<track, called, threadVars, geom>>

QueryBoth(rangeRect) ==
    /\ ncalls < MaxCalls
    /\ ncalls' = ncalls + 1
    /\ tree' = Query(tree, rangeRect).tree
    /\ shadow' = Query(shadow, rangeRect).tree
    /\ UNCHANGED <<track, called, threadVars, geom>>

NextTrack ==
    \/ \E p \in Points : TrackedInsert(p)
    \/ TrackedRemove
    \/ \E p \in Points : InsertBoth(p)
    \/ \E p \in Points : RemoveBoth(p)
    \/ \E rangeRect \in Rects : QueryBoth(rangeRect)

SpecTrack == Init /\ [][NextTrack]_vars

\* ---------------------------------------------------------------- threads
(***************************************************************************)
(* Several goroutines calling the methods of the one tree.  A step of a    *)
(* thread is one operation on a mutex together with the code the thread    *)
(* runs, lock in hand, up to its next operation on a mutex.                *)
(***************************************************************************)
ConcPoints == {Pt(0, 0, "d1"), Pt(-4 * Unit, -2 * Unit, "d2")}

ConcRects ==
    { worldBoundary,
      [X |-> 3 * Unit, Y |-> Unit, Width |-> 3 * Unit, Height |-> Unit] }

\* What the tree holds when the threads start: nothing, or two points in two
\* quadrants.
Seeds == {<<>>, <<Pt(0, 0, "d1"), Pt(-4 * Unit, -2 * Unit, "d2")>>}

ConcCapacities == {1, 2}

\* The tree after a lone caller's Inserts of the points ps.
RECURSIVE InsertAll(_, _)
InsertAll(tr, ps) ==
    IF ps = <<>> THEN tr ELSE InsertAll(Insert(tr, Head(ps)).tree, Tail(ps))

\* sync.RWMutex.  Lock() is two waits: for the writer slot (rw.w.Lock()),
\* from when new readers are turned away, then for the readers inside to
\* leave.  RLock() waits while a writer holds the slot.
\* Lock() without the writer slot: a writer does not wait for another.
CanArrive_Barging(l) == TRUE

CanArrive(l) == l.w = NoThread

Arrive(l, t) == [l EXCEPT !.w = t]

\* Lock() that does not wait for the readers to leave.
CanLock_Barging(l) == TRUE

CanLock(l) == l.readers = {}

Lock(l) == [l EXCEPT !.locked = TRUE]

\* RLock() that does not wait for a writer.
CanRLock_Barging(l) == TRUE

CanRLock(l) == l.w = NoThread

RLock(l, t) == [l EXCEPT !.readers = @ \cup {t}]

\* Insert and Remove without their "defer qt.mu.Unlock()".
Unlock_Forgotten(l) == l

Unlock(l) == [l EXCEPT !.w = NoThread, !.locked = FALSE]

\* queryRecursive without its "defer qt.mu.RUnlock()".
RUnlock_Forgotten(l, t) == l

RUnlock(l, t) == [l EXCEPT !.readers = @ \ {t}]

\* The deferred unlock of activation f.
Release(l, f, t) == IF f.fn = "queryRecursive" THEN RUnlock(l, t) ELSE Unlock(l)

\* The mutexes of the nodes of tr: those of m, and new ones in new nodes.
Mutexes(m, tr) == [n \in DOMAIN tr |-> IF n \in DOMAIN m THEN m[n] ELSE Unlocked]

\* Thread t calls fn on the root, the calls so far being fewer than most.
Go(t, fn, p, rangeRect, most) ==
    /\ stack[t] = <<>>
    /\ nops < most
    /\ nops' = nops + 1
    /\ stack' = [stack EXCEPT ![t] = <<Frame(fn, root, p, rangeRect)>>]
    /\ found' = [found EXCEPT ![t] = <<>>]
    /\ UNCHANGED <<tree, mu, mine, entry, loneVars>>

GoInsert(t, p) == Go(t, "Insert", p, NoRect, MaxOps) /\ UNCHANGED sim

GoRemove(t, p) == Go(t, "Remove", p, NoRect, MaxOps) /\ UNCHANGED sim

GoQuery(t, rangeRect) ==
    Go(t, "queryRecursive", NoPoint, rangeRect, MaxOps) /\ UNCHANGED sim

\* t's innermost activation has its lock, in mutexes m, and runs to its
\* first call or to its return.
Entered(t, m) ==
    \E e \in {Enter(tree, Top(stack[t]))} :
        /\ tree' = e.tree
        /\ mu' = Mutexes(m, e.tree)
        /\ stack' = [stack EXCEPT ![t] = SubSeq(@, 1, Len(@) - 1) \o e.frames]
        /\ found' = [found EXCEPT ![t] = @ \o e.found]
        /\ entry' = IF Len(stack[t]) = 1 THEN [entry EXCEPT ![t] = tree] ELSE entry

\* qt.mu.Lock(), first half (lines 99, 261).
WriterArrives(t) ==
    /\ stack[t] # <<>>
    /\ Top(stack[t]).pc = "Lock"
    /\ Top(stack[t]).fn # "queryRecursive"
    /\ CanArrive(mu[Top(stack[t]).qt])
    /\ mu' = [mu EXCEPT ![Top(stack[t]).qt] = Arrive(@, t)]
    /\ stack' = [stack EXCEPT ![t][Len(stack[t])].pc = "Wait"]
    /\ UNCHANGED <<tree, found, nops, mine, sim, entry, loneVars>>

\* qt.mu.Lock(), second half, and the body of Insert or Remove.
WriterEnters(t) ==
    /\ stack[t] # <<>>
    /\ Top(stack[t]).pc = "Wait"
    /\ CanLock(mu[Top(stack[t]).qt])
    /\ Entered(t, [mu EXCEPT ![Top(stack[t]).qt] = Lock(@)])
    /\ UNCHANGED <<nops, mine, sim, loneVars>>

\* qt.mu.RLock() (line 222) and the body of queryRecursive.
ReaderEnters(t) ==
    /\ stack[t] # <<>>
    /\ Top(stack[t]).pc = "Lock"
    /\ Top(stack[t]).fn = "queryRecursive"
    /\ CanRLock(mu[Top(stack[t]).qt])
    /\ Entered(t, [mu EXCEPT ![Top(stack[t]).qt] = RLock(@, t)])
    /\ UNCHANGED <<nops, mine, sim, loneVars>>

\* A recursive call returns: its deferred unlock runs, then the calling
\* activation goes on to its next call or to its own return.
Returns(t) ==
    /\ Len(stack[t]) > 1
    /\ Top(stack[t]).pc = "Ret"
    /\ \E e \in {Resume(tree, stack[t][Len(stack[t]) - 1], Top(stack[t]).ret)} :
           /\ tree' = e.tree
           /\ mu' = [mu EXCEPT ![Top(stack[t]).qt] = Release(@, Top(stack[t]), t)]
           /\ stack' = [stack EXCEPT ![t] = SubSeq(@, 1, Len(@) - 2) \o e.frames]
           /\ found' = [found EXCEPT ![t] = @ \o e.found]
    /\ UNCHANGED <<nops, mine, sim, entry, loneVars>>

\* The points the threads rely on once f has returned to its caller.
Mine(t, f) ==
    [ u \in Threads |->
        IF f.fn = "Insert" /\ f.ret /\ u = t THEN f.p
        ELSE IF f.fn = "Remove" /\ f.ret /\ mine[u] = f.p THEN NoPoint
        ELSE mine[u] ]

\* The call on the root returns to its caller: its deferred unlock runs, and
\* the result is the caller's.
Finishes(t) ==
    /\ Len(stack[t]) = 1
    /\ Top(stack[t]).pc = "Ret"
    /\ mu' = [mu EXCEPT ![root] = Release(@, Top(stack[t]), t)]
    /\ stack' = [stack EXCEPT ![t] = <<>>]
    /\ found' = [found EXCEPT ![t] = <<>>]
    /\ mine' = Mine(t, Top(stack[t]))
    /\ entry' = [entry EXCEPT ![t] = <<>>]
    /\ UNCHANGED <<tree, nops, sim, loneVars>>

\* A step of thread t inside a call.
Runs(t) ==
    \/ WriterArrives(t)
    \/ WriterEnters(t)
    \/ ReaderEnters(t)
    \/ Returns(t)
    \/ Finishes(t)

\* The tree built and seeded, every mutex free, no call under way.
InitConc ==
    \E capacity \in ConcCapacities, seed \in Seeds :
        /\ tree = InsertAll(root :> NewQuadTree(worldBoundary, capacity), seed)
        /\ mu = Mutexes(<<>>, tree)
        /\ ncalls = 0
        /\ called = Call("NewQuadTree", NoPoint, worldBoundary, capacity, NoOutcome, <<>>)
        /\ shadow = tree
        /\ track = [p |-> NoPoint, at |-> "none", removed |-> FALSE]
        /\ IdleThreads
        /\ geom = NoGeom

NextConc ==
    \/ \E t \in Threads, p \in ConcPoints : GoInsert(t, p)
    \/ \E t \in Threads, p \in ConcPoints : GoRemove(t, p)
    \/ \E t \in Threads, rangeRect \in ConcRects : GoQuery(t, rangeRect)
    \/ \E t \in Threads : Runs(t)

SpecConc == InitConc /\ [][NextConc]_vars

\* Every thread that can take a step inside a call eventually takes one.
SpecConcFair == SpecConc /\ \A t \in Threads : WF_vars(Runs(t))

\* ----------------------------------------------------------------- main.go
(***************************************************************************)
(* The program: one goroutine per driver running simulateDriver, and the   *)
(* HTTP handler's goroutines calling tree.Query.                            *)
(***************************************************************************)
Drivers == {1, 2}

Finders == Threads \ Drivers

\* driverID, the payload of all of a driver's points.
driverID(t) == IF t = 1 THEN "d1" ELSE "d2"

\* Where a driver may start (lines 39-43).
StartPoints(t) == {Pt(0, 0, driverID(t)), Pt(-6 * Unit, -2 * Unit, driverID(t))}

\* The random moves of lines 53-54.
Deltas == {<<-Unit, 0>>, <<Unit, Unit>>}

\* Lines 56-67, for one coordinate.
Wrapped(v, limit) ==
    IF v > limit THEN -limit
    ELSE IF v < -limit THEN limit
    ELSE v

\* newPoint of lines 53-73.
newPoint(currentPoint, d) ==
    Pt(Wrapped(FlAdd(currentPoint.X, d[1]), 6 * Unit),
       Wrapped(FlAdd(currentPoint.Y, d[2]), 3 * Unit),
       currentPoint.Data)

\* tree.Insert(currentPoint), line 45.
DriverStarts(t, p) ==
    /\ sim[t].at = "none"
    /\ Go(t, "Insert", p, NoRect, MaxSimOps)
    /\ sim' = [sim EXCEPT ![t] = [at |-> "Remove", currentPoint |-> p]]

\* tree.Remove(currentPoint), line 51.
DriverRemoves(t) ==
    /\ sim[t].at = "Remove"
    /\ Go(t, "Remove", sim[t].currentPoint, NoRect, MaxSimOps)
    /\ sim' = [sim EXCEPT ![t].at = "Insert"]

\* tree.Insert(newPoint); currentPoint = newPoint, lines 53-77.
DriverInserts(t, d) ==
    /\ sim[t].at = "Insert"
    /\ Go(t, "Insert", newPoint(sim[t].currentPoint, d), NoRect, MaxSimOps)
    /\ sim' = [sim EXCEPT ![t] = [at |-> "Remove",
                                  currentPoint |-> newPoint(sim[t].currentPoint, d)]]

\* foundPoints := tree.Query(searchArea), line 101.
handleFindNearby(t, searchArea) ==
    /\ Go(t, "queryRecursive", NoPoint, searchArea, MaxSimOps)
    /\ UNCHANGED sim

NextSim ==
    \/ \E t \in Drivers : \E p \in StartPoints(t) : DriverStarts(t, p)
    \/ \E t \in Drivers : DriverRemoves(t)
    \/ \E t \in Drivers, d \in Deltas : DriverInserts(t, d)
    \/ \E t \in Finders, searchArea \in ConcRects : handleFindNearby(t, searchArea)
    \/ \E t \in Threads : Runs(t)

SpecSim == Init /\ [][NextSim]_vars

\* --------------------------------------------------------------- geometry
(***************************************************************************)
(* Boundary.Intersects on its own, on pairs of rectangles with positive    *)
(* half-extents: small ones near the origin, and ones centred on the first *)
(* number whose two neighbours are more than 1 away.                       *)
(***************************************************************************)
Big == Pow2(MantBits + 1)

GeomRects ==
    { [X |-> x, Y |-> y, Width |-> w, Height |-> 1] :
        x \in {0, 2, Big - 4, Big}, y \in {0, 2}, w \in {1, 4} }

\* geom := b.Intersects(other).
IntersectsCall(b, other) ==
    /\ geom' = [b |-> b, other |-> other, ret |-> Intersects(b, other)]
    /\ UNCHANGED <<tree, ncalls, called, shadow, track, threadVars>>

NextGeom == \E b \in GeomRects, other \in GeomRects : IntersectsCall(b, other)

SpecGeom == Init /\ [][NextGeom]_vars

\* ----------------------------------------------------------------- claims
\* The half-open box [cx-hw, cx+hw) x [cy-hh, cy+hh), as the specification
\* words it.
InBox(b, p) ==
    /\ b.X - b.Width <= p.X /\ p.X < b.X + b.Width
    /\ b.Y - b.Height <= p.Y /\ p.Y < b.Y + b.Height

\* The stored points, as a multiset.
Held(tr) == BagOf(Stored(tr, root))

\* The stored points that lie in rectangle r, in storage order.
HeldIn(tr, r) == SelectSeq(Stored(tr, root), LAMBDA p : InBox(r, p))

\* The leaves of tr.
Leaves(tr) == { qt \in DOMAIN tr : tr[qt].northWest = Nil }

One(p) == SetToBag({p})

\* C1: a Query by a lone caller returns exactly the multiset of the stored
\* points that lie in the query rectangle: none is missed, none is added.
C1_QueryExact ==
    called.op = "Query" =>
        BagOf(called.found) = BagOf(HeldIn(tree, called.rangeRect))

\* A Query of a subdivided tree that pruned a subtree holding points and
\* returned some, but not all, of the stored points.
C1_Witness ==
    /\ called.op = "Query"
    /\ tree[root].northWest # Nil
    /\ Len(called.found) > 0
    /\ Len(called.found) < Len(Stored(tree, root))
    /\ \E qt \in Leaves(tree) :
          /\ tree[qt].points # <<>>
          /\ ~Intersects(tree[qt].boundary, called.rangeRect)

\* C2: Insert(p) returns true iff p lies in the root's half-open boundary;
\* when it returns true the tree holds one more p than before, in a leaf,
\* and every other point as before.
C2_InsertContract ==
    called.op = "Insert" =>
        /\ called.ret <=> InBox(tree[root].boundary, called.p)
        /\ called.ret =>
              /\ Held(tree) = Held(called.before) (+) One(called.p)
              /\ \E qt \in Leaves(tree) : called.p \in Range(tree[qt].points)

\* C3: Remove(p) returns true iff the tree held a point equal to p on x, y
\* and payload; it then removes exactly one such point and nothing else, so
\* that removing a point that was stored once again returns false.
C3_RemoveContract ==
    called.op = "Remove" =>
        /\ called.ret <=> BagIn(called.p, Held(called.before))
        /\ called.ret => Held(tree) (+) One(called.p) = Held(called.before)
        /\ ~called.ret => Held(tree) = Held(called.before)
        /\ called.ret /\ CopiesIn(called.p, Held(called.before)) = 1
              => ~Remove(tree, called.p).ret

\* A Remove that returned true and left behind a point at the same place
\* with another payload, or another copy of the same point.
C3_Witness ==
    /\ called.op = "Remove"
    /\ called.ret
    /\ \E q \in Range(Stored(tree, root)) :
          q.X = called.p.X /\ q.Y = called.p.Y

\* C4: once a point has been inserted and removed again (its Remove
\* returned true), with calls about other points in between, a Query of the
\* whole world returns the multiset it returns on the tree that never got
\* the point, and not the point.
C4_RemoveInvertsInsert ==
    track.at = "out" /\ track.removed =>
        /\ BagOf(Query(tree, worldBoundary).found)
              = BagOf(Query(shadow, worldBoundary).found)
        /\ track.p \notin Range(Query(tree, worldBoundary).found)

\* A call of thread t is under way.
Busy(t) == stack[t] # <<>>

\* Thread t is between the Lock() or RLock() and the deferred unlock of an
\* activation of Insert or Remove (Writes), of queryRecursive (Reads), on
\* node n: the stretch of code that touches n.points and n's child pointers.
Writes(t, n) ==
    \E k \in 1..Len(stack[t]) :
        /\ stack[t][k].qt = n
        /\ stack[t][k].pc \in {"Call", "Ret"}
        /\ stack[t][k].fn # "queryRecursive"

Reads(t, n) ==
    \E k \in 1..Len(stack[t]) :
        /\ stack[t][k].qt = n
        /\ stack[t][k].pc \in {"Call", "Ret"}
        /\ stack[t][k].fn = "queryRecursive"

\* Thread t's Query has entered the root and not yet returned to its caller.
QueryInside(t) == Busy(t) /\ Reads(t, root)

\* Thread t's call is at its return to the caller, the result in hand.
AtReturn(t, fn) ==
    /\ Len(stack[t]) = 1
    /\ stack[t][1].fn = fn
    /\ stack[t][1].pc = "Ret"

\* C5: no deadlock.  Whenever a call is under way some thread can take a
\* step inside a call, and when every thread that can step does so in the
\* end, every call that was started returns to its caller.
C5_NoDeadlock ==
    /\ []((\E t \in Threads : Busy(t)) => \E t \in Threads : ENABLED Runs(t))
    /\ \A t \in Threads : Busy(t) ~> ~Busy(t)

\* A thread that has to wait for a lock another thread's call holds.
C5_Witness ==
    \E t \in Threads, u \in Threads :
        /\ t # u
        /\ Busy(t)
        /\ ~ENABLED Runs(t)
        /\ Busy(u)
        /\ Len(stack[u]) > 1

\* The node whose lock covers node n when n changes: n itself, or for a node
\* that subdivide has just made, the node that was subdivided.
Owner(n) == IF n \in DOMAIN tree THEN n ELSE SubSeq(n, 1, Len(n) - 1)

\* C6: no data race.  A thread in the code that writes a node holds the
\* node's mutex for writing and no other thread is in code that reads or
\* writes that node; a thread in the code that reads a node holds the mutex
\* for reading, which no writer holds then; and a step changes a node only
\* for a thread that is then writing it.
C6_NoDataRace ==
    /\ [](\A n \in DOMAIN tree, t \in Threads :
            /\ Writes(t, n) =>
                  /\ mu[n].locked /\ mu[n].w = t /\ mu[n].readers = {}
                  /\ \A u \in Threads \ {t} : ~Writes(u, n) /\ ~Reads(u, n)
            /\ Reads(t, n) => t \in mu[n].readers /\ ~mu[n].locked)
    /\ [][\A n \in DOMAIN tree' :
            (n \notin DOMAIN tree \/ tree'[n] # tree[n])
                => \E m \in {Owner(n)}, t \in Threads : Writes(t, m)']_vars

\* Two Queries hold one node's read lock at once, and a writer that has
\* asked for the same node is kept waiting.
C6_Witness ==
    \E n \in DOMAIN tree, t \in Threads, u \in Threads :
        /\ t # u
        /\ Reads(t, n)
        /\ \/ Reads(u, n)
           \/ /\ Busy(u)
              /\ Top(stack[u]).qt = n
              /\ Top(stack[u]).pc = "Wait"
        /\ tree[root].northWest # Nil

C8_ReadYourWrite ==
    \A t \in Threads :
        /\ AtReturn(t, "queryRecursive")
        /\ mine[t] # NoPoint
        /\ InBox(stack[t][1].rangeRect, mine[t])
        => mine[t] \in Range(found[t])

\* The payloads of the points in the sequence s, one entry per point.
PerPayload(s, d) == Cardinality({ k \in 1..Len(s) : s[k].Data = d })

\* C9: the drivers and the handlers at work.  When no call is under way the
\* tree holds at most one point of each driver, and the result of every
\* Query holds at most one point of each driver.
C9_OnePointPerDriver ==
    /\ (\A t \in Threads : ~Busy(t))
          => \A d \in Drivers : PerPayload(Stored(tree, root), driverID(d)) <= 1
    /\ \A t \in Threads :
          AtReturn(t, "queryRecursive")
              => \A d \in Drivers : PerPayload(found[t], driverID(d)) <= 1

\* Both drivers have a point in the tree, one of them after a move, and no
\* call is under way.
C9_Witness ==
    /\ \A t \in Threads : ~Busy(t)
    /\ \A d \in Drivers : PerPayload(Stored(tree, root), driverID(d)) = 1
    /\ \E d \in Drivers :
          /\ sim[d].at = "Remove"
          /\ sim[d].currentPoint \notin StartPoints(d)
          /\ sim[d].currentPoint \in Range(Stored(tree, root))
    /\ nops = MaxSimOps

\* C10: NewQuadTree(world, capacity) returns a leaf with an empty bucket,
\* boundary world and capacity max(capacity, 1).
C10_NewQuadTree ==
    called.op = "NewQuadTree" =>
        /\ DOMAIN tree = {root}
        /\ tree[root].northWest = Nil /\ tree[root].northEast = Nil
        /\ tree[root].southWest = Nil /\ tree[root].southEast = Nil
        /\ tree[root].points = <<>>
        /\ tree[root].boundary = called.rangeRect
        /\ tree[root].capacity
              = IF called.capacity >= 1 THEN called.capacity ELSE 1

\* A tree built with capacity 0, which holds capacity 1.
C10_Witness ==
    /\ called.op = "NewQuadTree"
    /\ called.capacity < 1
    /\ tree[root].capacity = 1

\* The four child pointers of node n.
Children(n) == {n.northWest, n.northEast, n.southWest, n.southEast}

\* C11: capacity.  After every call a lone caller makes, no leaf's bucket
\* holds more than capacity points, and a leaf that an Insert has split held
\* capacity points before, one more than its capacity with the new one.
C11_Capacity ==
    /\ \A qt \in Leaves(tree) : Len(tree[qt].points) <= tree[qt].capacity
    /\ called.op = "Insert" =>
          \A qt \in Leaves(called.before) :
              tree[qt].northWest # Nil
                  => Len(called.before[qt].points) = tree[qt].capacity

\* An Insert that filled a leaf of capacity 2 to the brim and left it a
\* leaf.
C11_Witness ==
    /\ called.op = "Insert"
    /\ called.ret
    /\ \E qt \in Leaves(tree) :
          /\ tree[qt].capacity = 2
          /\ Len(tree[qt].points) = 2
          /\ Len(called.before[qt].points) = 1

\* C12: structure.  After every call a lone caller makes, every node has
\* no child at all or all four, and a node with children has an empty
\* bucket.
C12_LeafOrInternal ==
    \A qt \in DOMAIN tree :
        \/ Children(tree[qt]) = {Nil}
        \/ /\ Nil \notin Children(tree[qt])
           /\ Cardinality(Children(tree[qt])) = 4
           /\ Children(tree[qt]) \subseteq DOMAIN tree
           /\ tree[qt].points = <<>>

\* A tree whose root has been split, with points in its leaves.
C12_Witness ==
    /\ tree[root].northWest # Nil
    /\ Len(Stored(tree, root)) >= 2
    /\ called.op = "Remove"
    /\ called.ret

\* The nodes on the way from the root to node qt, both included.
Ancestors(qt) == { SubSeq(qt, 1, k) : k \in 0..Len(qt) }

\* C13: containment.  After every call a lone caller makes, every point in
\* a bucket satisfies Contains of its node's boundary and of the boundary of
\* every node above it.
C13_Containment ==
    \A qt \in DOMAIN tree : \A p \in Range(tree[qt].points) :
        \A a \in Ancestors(qt) : Contains(tree[a].boundary, p)

\* Points stored two levels below the root.
C13_Witness ==
    \E qt \in DOMAIN tree :
        /\ Len(qt) >= 2
        /\ tree[qt].points # <<>>

\* The children of node qt whose boundary p satisfies.
Accepting(tr, qt, p) == { c \in Children(tr[qt]) : Contains(tr[c].boundary, p) }

\* C14: partition.  Of the four children of an internal node, exactly one
\* satisfies Contains for a point the node's own boundary satisfies, and so
\* exactly one leaf does for a point the root's boundary satisfies.
C14_Partition ==
    \A p \in Points :
        /\ \A qt \in DOMAIN tree \ Leaves(tree) :
              Contains(tree[qt].boundary, p)
                  => Cardinality(Accepting(tree, qt, p)) = 1
        /\ Contains(tree[root].boundary, p)
              => Cardinality({ qt \in Leaves(tree) :
                                 Contains(tree[qt].boundary, p) }) = 1

\* C15: subdivision conserves points.  A leaf that an Insert has split has
\* four children and an empty bucket, and the points it held together with
\* the new one are all in its subtree, each once, each below a child whose
\* boundary it satisfies.
C15_SubdivisionConserves ==
    called.op = "Insert" =>
        \A qt \in Leaves(called.before) :
            tree[qt].northWest # Nil =>
                /\ Nil \notin Children(tree[qt])
                /\ tree[qt].points = <<>>
                /\ BagOf(Stored(tree, qt))
                      = BagOf(called.before[qt].points) (+) One(called.p)
                /\ \A p \in Range(Stored(tree, qt)) :
                      \E c \in Accepting(tree, qt, p) : p \in Range(Stored(tree, c))

\* p lies on the east or on the north edge of b, as the code computes them.
OnUpperEdge(b, p) ==
    \/ p.X = FlAdd(b.X, b.Width)
    \/ p.Y = FlAdd(b.Y, b.Height)

\* C16 as the specification has it: the Insert of a point on the root's
\* east or north edge is accepted, it returns true.
C16_UpperEdgeAccepted ==
    called.op = "Insert" /\ OnUpperEdge(tree[root].boundary, called.p)
        => called.ret

\* C16, amended: a point on a node's east or north edge does not satisfy
\* the node's Contains.  The Insert of a point on the root's edge returns
\* false and leaves the tree as it was, and no bucket ever holds a point on
\* an upper edge of its node: there is no such point to lose.
C16_UpperEdgeRejected ==
    /\ called.op = "Insert" /\ OnUpperEdge(tree[root].boundary, called.p)
          => ~called.ret /\ tree = called.before
    /\ \A qt \in DOMAIN tree :
          /\ \A p \in Points :
                OnUpperEdge(tree[qt].boundary, p) => ~Contains(tree[qt].boundary, p)
          /\ \A p \in Range(tree[qt].points) : ~OnUpperEdge(tree[qt].boundary, p)

\* An Insert of a point on the root's edge into a tree the root of which
\* has been split.
C16_Witness ==
    /\ called.op = "Insert"
    /\ OnUpperEdge(tree[root].boundary, called.p)
    /\ tree[root].northWest # Nil
    /\ Len(Stored(tree, root)) >= 2

\* Thread t's Insert has just split a leaf whose capacity + 1 points all have
\* the coordinates of p.
CoincidentSplit(t, p) ==
    \E k \in 1..Len(stack[t]) :
        /\ stack[t][k].fn = "Insert"
        /\ stack[t][k].redis
        /\ Len(stack[t][k].oldPoints) = tree[stack[t][k].qt].capacity + 1
        /\ \A q \in Range(stack[t][k].oldPoints) : q.X = p.X /\ q.Y = p.Y

\* Halving the world's half-width gives zero after this many steps.
DepthLimit == BitLen(worldBoundary.Width) + 1

C18_NoMerge ==
    [][\A qt \in DOMAIN tree :
          /\ qt \in DOMAIN tree'
          /\ tree'[qt].boundary = tree[qt].boundary
          /\ tree'[qt].capacity = tree[qt].capacity
          /\ tree[qt].northWest # Nil =>
                /\ tree'[qt].northWest = tree[qt].northWest
                /\ tree'[qt].northEast = tree[qt].northEast
                /\ tree'[qt].southWest = tree[qt].southWest
                /\ tree'[qt].southEast = tree[qt].southEast]_vars

\* A Remove has taken the last point out of a tree whose root has children:
\* every bucket is empty and the root still has its children.
C18_Witness ==
    /\ called.op = "Remove"
    /\ called.ret
    /\ tree[root].northWest # Nil
    /\ Stored(tree, root) = <<>>
    /\ Len(Stored(called.before, root)) = 1

\* The nodes whose mutex thread t holds: as the writer, from the moment new
\* readers are turned away, or as a reader.
Locks(t) == { n \in DOMAIN mu : mu[n].w = t \/ t \in mu[n].readers }

Parent(n) == SubSeq(n, 1, Len(n) - 1)

\* Node m is below node n.
Below(m, n) == Len(m) > Len(n) /\ SubSeq(m, 1, Len(n)) = n

\* C19: lock ordering.  The mutexes a thread holds are those of the nodes
\* on one path down from the root, so never those of two children of one
\* node; a thread at the lock of a node below the root is in a call made by
\* the activation on that node's parent, whose mutex it holds, for writing
\* in Insert and Remove and for reading in a Query; and a step gives a
\* thread a mutex only when it holds the parent's and none below.
C19_LockOrdering ==
    /\ [](\A t \in Threads :
            /\ \A n \in Locks(t) : n = root \/ Parent(n) \in Locks(t)
            /\ \A n \in Locks(t), m \in Locks(t) : Len(n) = Len(m) => n = m
            /\ Busy(t) => stack[t][1].qt = root
            /\ \A k \in 2..Len(stack[t]) :
                  /\ Parent(stack[t][k].qt) = stack[t][k - 1].qt
                  /\ stack[t][k - 1].pc = "Call"
                  /\ IF stack[t][k].fn = "queryRecursive"
                     THEN t \in mu[stack[t][k - 1].qt].readers
                     ELSE /\ mu[stack[t][k - 1].qt].w = t
                          /\ mu[stack[t][k - 1].qt].locked)
    /\ [][\A t \in Threads : \A n \in DOMAIN mu :
            n \notin Locks(t) /\ n \in Locks(t)'
                => /\ n = root \/ Parent(n) \in Locks(t)
                   /\ \A m \in Locks(t) : ~Below(m, n)]_vars

\* A Query that holds the root's mutex and a child's, its second or a later
\* one, while a writer that asked for the root waits.
C19_Witness ==
    \E t \in Threads, u \in Threads :
        /\ Reads(t, root)
        /\ Cardinality(Locks(t)) = 2
        /\ stack[t][1].i >= 2
        /\ mu[root].w = u

\* The coordinates a point near the rectangles of GeomRects can have.
GeomCoords == { Fl(v) : v \in -4..(Big + 4) }

\* Some point satisfies Contains of both rectangles.
CommonPoint(a, b) ==
    \E x \in GeomCoords, y \in GeomCoords :
        Contains(a, Pt(x, y, "d1")) /\ Contains(b, Pt(x, y, "d1"))

\* The edges of r, as the code computes them, have numbers between them.
NonEmpty(r) ==
    /\ FlSub(r.X, r.Width) < FlAdd(r.X, r.Width)
    /\ FlSub(r.Y, r.Height) < FlAdd(r.Y, r.Height)

\* The east edge of a is the west edge of b, or the north edge of a the
\* south edge of b.
EdgeAdjacent(a, b) ==
    \/ FlAdd(a.X, a.Width) = FlSub(b.X, b.Width)
    \/ FlAdd(a.Y, a.Height) = FlSub(b.Y, b.Height)

\* C20 as the specification has it: Intersects is true exactly when some
\* point satisfies Contains of both rectangles.
C20_IntersectsIffCommonPoint ==
    geom # NoGeom => (geom.ret <=> CommonPoint(geom.b, geom.other))

\* C20, amended: Intersects is true whenever some point satisfies Contains
\* of both rectangles; when it is true of two rectangles that both have
\* numbers between their edges some point satisfies both; and it is false
\* of rectangles that share an edge, either way round.
C20_IntersectsCoversCommonPoint ==
    geom # NoGeom =>
        /\ CommonPoint(geom.b, geom.other) => geom.ret
        /\ geom.ret /\ NonEmpty(geom.b) /\ NonEmpty(geom.other)
              => CommonPoint(geom.b, geom.other)
        /\ EdgeAdjacent(geom.b, geom.other) \/ EdgeAdjacent(geom.other, geom.b)
              => ~geom.ret

\* Two different rectangles that overlap in part, one of them with an edge
\* that rounding has moved.
C20_Witness ==
    /\ geom.ret
    /\ geom.b.X = Big
    /\ geom.other.X # Big
    /\ NonEmpty(geom.b)
    /\ CommonPoint(geom.b, geom.other)

\* Node n is c or a node below c.
Within(n, c) == n = c \/ Below(n, c)

\* The nodes of tr that the call changed or made.
Touched(before, tr) ==
    { n \in DOMAIN tr : n \notin DOMAIN before \/ tr[n] # before[n] }

\* The internal nodes of tr an Insert(p) on the root goes down through: their
\* boundaries and those of the nodes above them satisfy Contains for p.
Descent(tr, p) ==
    { qt \in DOMAIN tr \ Leaves(tr) :
        \A a \in Ancestors(qt) : Contains(tr[a].boundary, p) }

\* C21: an Insert into an internal node changes one child's subtree.  Of an
\* internal node that Insert(p) goes down through exactly one child has a
\* boundary that satisfies Contains for p; the node itself and every node at
\* or below its other three children are afterwards as they were, and no
\* node was added below them.
C21_OneChildChanges ==
    called.op = "Insert" =>
        \A qt \in Descent(called.before, called.p) :
            /\ Cardinality(Accepting(called.before, qt, called.p)) = 1
            /\ qt \notin Touched(called.before, tree)
            /\ \A c \in Children(called.before[qt])
                        \ Accepting(called.before, qt, called.p) :
                  \A n \in Touched(called.before, tree) : ~Within(n, c)

\* What is left of C21 without the count of the accepting children: the
\* node itself and every node at or below a child whose boundary does not
\* satisfy Contains for p are as they were, and the nodes below it that the
\* call changed or made are all at or below one child.
InsertFrame ==
    called.op = "Insert" =>
        \A qt \in Descent(called.before, called.p) :
            LET below == { n \in Touched(called.before, tree) : Below(n, qt) }
            IN  /\ qt \notin Touched(called.before, tree)
                /\ \A c \in Children(called.before[qt])
                            \ Accepting(called.before, qt, called.p) :
                      \A n \in below : ~Within(n, c)
                /\ \A n \in below, m \in below :
                      \E c \in Children(called.before[qt]) :
                          Within(n, c) /\ Within(m, c)

\* Thread t's call has its lock on the root and has not yet returned to its
\* caller.
Inside(t) == Writes(t, root) \/ Reads(t, root)

\* C22: whole-tree writer exclusion.  Every activation of a call is on the
\* root or under the call's activation on the root, which holds the root's
\* mutex, for writing in Insert and Remove and for reading in a Query, until
\* it returns; while an Insert or Remove is inside the tree no other call
\* is, no mutex of any node has a reader and none is locked by another
\* thread; no step changes the tree while a Query stays inside it, and the
\* points a Query returns are the stored points of its range.
C22_WholeTreeExclusion ==
    /\ [](\A t \in Threads :
            /\ Busy(t) => stack[t][1].qt = root
            /\ Len(stack[t]) > 1 => stack[t][1].pc = "Call"
            /\ Writes(t, root) => mu[root].locked /\ mu[root].w = t
            /\ Reads(t, root) => t \in mu[root].readers
            /\ Writes(t, root) =>
                  /\ \A u \in Threads \ {t} : ~Inside(u) /\ Len(stack[u]) <= 1
                  /\ \A n \in DOMAIN mu :
                        /\ mu[n].readers = {}
                        /\ mu[n].locked => mu[n].w = t
            /\ AtReturn(t, "queryRecursive") =>
                  Range(found[t])
                      = { p \in Range(Stored(tree, root)) :
                            InBox(stack[t][1].rangeRect, p) })
    /\ [][\A t \in Threads :
            Reads(t, root) /\ Reads(t, root)' => tree' = tree]_vars

\* An Insert at work two levels below the root in a tree that holds points,
\* and a Query kept waiting at the root.
C22_Witness ==
    \E t \in Threads, u \in Threads :
        /\ t # u
        /\ Writes(t, root)
        /\ stack[t][1].fn = "Insert"
        /\ Len(stack[t]) > 2
        /\ Stored(tree, root) # <<>>
        /\ Busy(u)
        /\ stack[u][1].fn = "queryRecursive"
        /\ stack[u][1].pc = "Lock"

\* C23: simulated drivers are never lost.  Every position simulateDriver
\* has for a driver satisfies Contains of the world boundary, every Insert a
\* driver makes returns true, and when no call is under way the tree holds
\* exactly one point with the ID of each driver that has made its Insert.
C23_DriversNeverLost ==
    \A t \in Drivers :
        /\ sim[t].at # "none" => Contains(worldBoundary, sim[t].currentPoint)
        /\ AtReturn(t, "Insert") => stack[t][1].ret
        /\ sim[t].at = "Remove" /\ (\A u \in Threads : ~Busy(u))
              => PerPayload(Stored(tree, root), driverID(t)) = 1

\* C24: failed and read-only operations change nothing.  When an Insert or
\* a Remove is about to return false to its caller, and when a Query is about
\* to return, every node of the tree, with its bucket, child pointers,
\* boundary and capacity, is as the call found it when it locked the root
\* and no node has been added; a thread with no call under way holds no
\* mutex and waits for none.
C24_FailuresChangeNothing ==
    \A t \in Threads :
        /\ Busy(t) /\ Len(stack[t]) = 1 /\ stack[t][1].pc = "Ret"
              /\ (stack[t][1].fn = "queryRecursive" \/ ~stack[t][1].ret)
              => tree = entry[t]
        /\ ~Busy(t) => Locks(t) = {}

\* A driver's Insert was turned away and its next Remove has found nothing,
\* in a tree that holds a point, and every mutex is free again.
C24_Witness ==
    \E t \in Drivers :
        /\ \A u \in Threads : ~Busy(u)
        /\ \A n \in DOMAIN mu : mu[n] = Unlocked
        /\ sim[t].at = "Insert"
        /\ ~Contains(worldBoundary, sim[t].currentPoint)
        /\ Stored(tree, root) # <<>>
        /\ nops >= 4

====
